---------------------------- MODULE Spec2Model ----------------------------
(***************************************************************************)
(* Model of the DeepSandbox Go API (vaskyblue/rundeepsandbox): the gin     *)
(* handler chains of main.go / routes.go, the Redis-backed admission       *)
(* counters of the middleware package, the execution controller with its   *)
(* processExecution goroutine, and the TaskQueue stub of the db package.   *)
(*                                                                         *)
(* One discrete clock `now` stands for every time.Now() of the program:    *)
(* two reads without a Tick in between return the same reading.            *)
(***************************************************************************)
EXTENDS Integers, Sequences, FiniteSets, TLC

VARIABLES
    now,         \* the clock reading: time.Now()
    redis,       \* the Redis counter store: key -> [val, exp]
    users,       \* the users table: username -> models.User
    executions,  \* the code_executions table: id -> models.CodeExecution
    uuids,       \* how many uuid.New() values have been drawn
    drivers,     \* the processExecution goroutines, in spawn order
    inflight,    \* handlers of concurrently served requests, mid-way
    resp,        \* the response of the request answered in the last step
    stats        \* history of admissions, kept to state the claims

vars == <<now, redis, users, executions, uuids, drivers, inflight, resp, stats>>

---------------------------------------------------------------------------
(* Bounds of the model. The three limits and the two durations are the     *)
(* configuration values of config.go, scaled down to clock ticks.          *)

MaxTime == 2                \* the clock runs from 1 to MaxTime
MaxRequests == 3            \* requests served in one behaviour
MaxTasks == 2               \* submissions accepted in one behaviour
MaxRunning == 1             \* submissions accepted while the drivers are scheduled
MaxInflight == 2            \* requests that are inside the rate limiter at a time
MaxCancels == 1             \* cancel requests that are mid-way at a time
RateLimitWindow == 1        \* cfg.RateLimitWindow, in ticks
MaxRequestsPerWindow == 2   \* cfg.MaxRequestsPerWindow
MaxExecutionsPerDay == 2    \* cfg.MaxExecutionsPerDay
ContainerTimeout == 3       \* cfg.ContainerTimeout
DayLen == 3                 \* 24 hours, in ticks

---------------------------------------------------------------------------
(* Finite maps (tables, the Redis keyspace).                               *)

Put(f, k, v) == [x \in (DOMAIN f) \cup {k} |-> IF x = k THEN v ELSE f[x]]

Del(f, k) == [x \in (DOMAIN f) \ {k} |-> f[x]]

EmptyMap == [x \in {} |-> 0]

---------------------------------------------------------------------------
(* The Redis commands the program issues. A key carries its value and the  *)
(* time at which it expires (NoTTL: it never does). Expired keys are       *)
(* removed when the clock advances, so a key in the map is a live key.     *)

NoTTL == 0 - 1

\* A read that answers a count at every limit when the store fails.
RedisGet_FailsAtLimit(store, key, down) ==
    IF down THEN [err |-> "", val |-> MaxRequestsPerWindow + MaxExecutionsPerDay]
    ELSE IF key \in DOMAIN store THEN [err |-> "", val |-> store[key].val]
    ELSE [err |-> "Nil", val |-> 0]

\* redisClient.Get(ctx, key).Int(): err is "Nil" for a missing key, "" for
\* success and "down" when the store cannot be read.
RedisGet(store, key, down) ==
    IF down THEN [err |-> "down", val |-> 0]
    ELSE IF key \in DOMAIN store THEN [err |-> "", val |-> store[key].val]
    ELSE [err |-> "Nil", val |-> 0]

\* redisClient.Set(ctx, key, value, ttl): the value with a fresh expiry.
RedisSet(store, key, value, ttl, t, down) ==
    IF down THEN store ELSE Put(store, key, [val |-> value, exp |-> t + ttl])

\* redisClient.Incr(ctx, key): INCR keeps the expiry of a live key and
\* creates a missing key at 1 without any expiry.
RedisIncr(store, key, down) ==
    IF down THEN store
    ELSE IF key \in DOMAIN store
         THEN Put(store, key, [store[key] EXCEPT !.val = @ + 1])
         ELSE Put(store, key, [val |-> 1, exp |-> NoTTL])

\* redisClient.Expire(ctx, key, ttl): sets the expiry of a live key anew.
RedisExpire(store, key, ttl, t, down) ==
    IF down \/ key \notin DOMAIN store THEN store
    ELSE Put(store, key, [store[key] EXCEPT !.exp = t + ttl])

\* The keys that are still live at time t.
Purge(store, t) ==
    [k \in {x \in DOMAIN store : store[x].exp = NoTTL \/ t < store[x].exp}
        |-> store[k]]

---------------------------------------------------------------------------
(* The users and datasets tables.                                          *)

NoUser == [ID |-> "", Username |-> "", Email |-> "", FullName |-> "",
           HashedPassword |-> "", Disabled |-> FALSE, Roles |-> {},
           Quota |-> [kind |-> "empty"]]

\* A quota blob (json.RawMessage): empty, not a JSON object of integers, or
\* a map from names to integers.
QuotaOf(m) == [kind |-> "map", m |-> m]

InitUsers ==
    [u \in {"alice", "bob", "root"} |->
        CASE u = "alice" -> [ID |-> "id-alice", Username |-> "alice",
                             Email |-> "alice@x", FullName |-> "",
                             HashedPassword |-> "hash",
                             Disabled |-> FALSE, Roles |-> {"user"},
                             Quota |-> [kind |-> "empty"]]
          [] u = "bob"   -> [ID |-> "id-bob", Username |-> "bob",
                             Email |-> "bob@x", FullName |-> "",
                             HashedPassword |-> "hash",
                             Disabled |-> FALSE, Roles |-> {"user"},
                             Quota |-> QuotaOf([k \in {"max_executions_per_day"} |-> 1])]
          [] u = "root"  -> [ID |-> "id-root", Username |-> "root",
                             Email |-> "root@x", FullName |-> "",
                             HashedPassword |-> "hash",
                             Disabled |-> FALSE, Roles |-> {"user", "admin"},
                             Quota |-> [kind |-> "bad"]]]

\* datasets: id -> owner's user ID (models.Dataset.UserID)
Datasets == [d \in {"d1", "d2"} |-> IF d = "d1" THEN "id-alice" ELSE "id-bob"]

\* A role test that finds the admin role on everybody.
IsAdmin_Everyone(user) == TRUE

\* for _, role := range user.Roles { if role == "admin" ... }
IsAdmin(user) == "admin" \in user.Roles

---------------------------------------------------------------------------
(* The code_executions table, through gorm.                                *)

NoExecution == [ID |-> "", UserID |-> "", DatasetID |-> "", Code |-> "",
                Status |-> "", Results |-> "", StartTime |-> 0, EndTime |-> 0,
                Error |-> "", CreatedAt |-> 0]

\* ec.DB.Where("id = ?", id).First(&execution)
DBFirst(tbl, id) ==
    IF id \in DOMAIN tbl THEN [err |-> FALSE, row |-> tbl[id]]
    ELSE [err |-> TRUE, row |-> NoExecution]

\* ec.DB.Create(&execution): an INSERT, refused when the primary key exists.
DBCreate(tbl, row) ==
    IF row.ID \in DOMAIN tbl THEN [err |-> TRUE, tbl |-> tbl]
    ELSE [err |-> FALSE, tbl |-> Put(tbl, row.ID, row)]

\* ec.DB.Save(&execution): an UPDATE of every field of the row whose primary
\* key is execution.ID, and an INSERT of the struct when there is no such row.
DBSave(tbl, row) == Put(tbl, row.ID, row)

---------------------------------------------------------------------------
(* The TaskQueue of the db package.                                        *)

\* fmt.Sprintf("task-%d", time.Now().UnixNano())
SubmitCodeExecution(datasetID, code, userID, timeout, priority, t) ==
    "task-" \o ToString(t)

\* TaskQueue.GetTaskStatus
QueueGetTaskStatus(taskID) ==
    [TaskID |-> taskID, Status |-> "pending", Progress |-> 0]

\* TaskQueue.CancelTask
QueueCancelTask(taskID, userID) == TRUE

---------------------------------------------------------------------------
(* gin: a request's context and its handler chain. index is gin's 0-based  *)
(* position in c.handlers (a TLA+ sequence, hence the + 1).                *)

abortIndex == 127 \div 2

\* c.JSON(code, obj): the first status written stands, the body is appended.
JSON(c, code, obj) ==
    [c EXCEPT !.status = IF @ = 0 THEN code ELSE @, !.body = Append(@, obj)]

\* An abort that does not stop the chain.
Abort_Nothing(c) == c

\* c.Abort()
Abort(c) == [c EXCEPT !.index = abortIndex]

IsAborted(c) == c.index >= abortIndex

\* The world a handler reads and writes travels in the context as c.w.
World == [now |-> now, redis |-> redis, users |-> users,
          executions |-> executions, uuids |-> uuids, drivers |-> drivers]

NoObs == [key |-> "", outcome |-> "", prior |-> 0, limit |-> 0]

\* What the task queue was handed, when SubmitCodeExecution was called.
NoSubmit == [called |-> FALSE, timeout |-> 0]

NewContext(handlers, req, w) ==
    [handlers |-> handlers, index |-> 0 - 1, req |-> req, user |-> NoUser,
     hasUser |-> FALSE, status |-> 0, body |-> <<>>, ran |-> <<>>, w |-> w,
     rl |-> NoObs, quota |-> NoObs, submit |-> NoSubmit]

RECURSIVE RunFrom(_), Invoke(_, _)

\* c.Next(): c.index++; for c.index < len(c.handlers) { call; c.index++ }
Next(c) == RunFrom([c EXCEPT !.index = @ + 1])

RunFrom(c) ==
    IF c.index < Len(c.handlers)
    THEN LET d == Invoke(c.handlers[c.index + 1], c)
         IN  RunFrom([d EXCEPT !.index = @ + 1])
    ELSE c

\* CORSMiddleware: headers, 204 on OPTIONS, else on to the next handler.
CORSMiddleware(c) ==
    IF c.req.method = "OPTIONS"
    THEN Abort([c EXCEPT !.status = 204])
    ELSE Next(c)

\* A Bearer token whose signature verifies and whose "sub" claim is a string.
ValidBearer(auth) == auth.kind = "bearer"

\* The identifier the rate limiter counts under.
RateLimitUserID(req) ==
    LET userID == IF ValidBearer(req.auth) THEN req.auth.sub ELSE "anonymous"
    IN  IF userID = "anonymous" THEN "ip:" \o req.ip ELSE userID

RateLimitKey(req) == "ratelimit:" \o RateLimitUserID(req)

\* A limit test that lets one request too many through.
RateLimitExceeded_OffByOne(count) == count > MaxRequestsPerWindow

\* if count >= cfg.MaxRequestsPerWindow
RateLimitExceeded(count) == count >= MaxRequestsPerWindow

\* The lifetime given to a new rate-limit key.
RateLimitTTL == RateLimitWindow

\* RateLimitMiddleware from "If key doesn't exist, create it" on, given what
\* the read of the counter returned.
RateLimitDecide(c, got) ==
    LET key == RateLimitKey(c.req)
        obs == [key |-> key, outcome |-> "", prior |-> got.val,
                limit |-> MaxRequestsPerWindow]
    IN  IF got.err = "Nil"
        THEN Next([c EXCEPT
                 !.w.redis = RedisSet(@, key, 1, RateLimitTTL, c.w.now, c.req.down),
                 !.rl = [obs EXCEPT !.outcome = "create"]])
        ELSE IF got.err = ""
        THEN IF RateLimitExceeded(got.val)
             THEN Abort(JSON([c EXCEPT !.rl = [obs EXCEPT !.outcome = "reject"]],
                             429, "too many requests"))
             ELSE Next([c EXCEPT
                      !.w.redis = RedisIncr(@, key, c.req.down),
                      !.rl = [obs EXCEPT !.outcome = "incr"]])
        ELSE Next([c EXCEPT !.rl = [obs EXCEPT !.outcome = "open"]])

RateLimitMiddleware(c) ==
    RateLimitDecide(c, RedisGet(c.w.redis, RateLimitKey(c.req), c.req.down))

\* Auth.AuthMiddleware
AuthMiddleware(c) ==
    LET auth == c.req.auth IN
    IF auth.kind = "none"
    THEN Abort(JSON(c, 401, "authorization header is required"))
    ELSE IF auth.kind = "basic"
    THEN Abort(JSON(c, 401, "invalid authorization format"))
    ELSE IF ~ValidBearer(auth)
    THEN Abort(JSON(c, 401, "invalid token"))
    ELSE IF auth.sub \notin DOMAIN c.w.users
    THEN Abort(JSON(c, 401, "user not found"))
    ELSE IF c.w.users[auth.sub].Disabled
    THEN Abort(JSON(c, 403, "user account is disabled"))
    ELSE Next([c EXCEPT !.user = c.w.users[auth.sub], !.hasUser = TRUE])

\* Auth.AdminMiddleware
AdminMiddleware(c) ==
    LET d == AuthMiddleware(c) IN
    IF IsAborted(d) THEN d
    ELSE IF ~d.hasUser
    THEN Abort(JSON(d, 500, "user not found in context"))
    ELSE IF ~IsAdmin(d.user)
    THEN Abort(JSON(d, 403, "admin access required"))
    ELSE Next(d)

---------------------------------------------------------------------------
(* The quota of a user, and the daily execution counter.                   *)

\* QuotaValue taking whatever integer the blob holds, positive or not.
QuotaValue_AnySign(blob, name, dflt) ==
    IF blob.kind = "map" /\ name \in DOMAIN blob.m THEN blob.m[name] ELSE dflt

\* json.Unmarshal(user.Quota, &quotaMap) and the lookup that follows it:
\* the user's value when the blob parses and holds a value > 0 under `name`,
\* else `dflt`.
QuotaValue(blob, name, dflt) ==
    IF blob.kind = "map" /\ name \in DOMAIN blob.m /\ blob.m[name] > 0
    THEN blob.m[name]
    ELSE dflt

\* time.Now().Format("2006-01-02")
Date(t) == "day" \o ToString(t \div DayLen)

\* A daily counter key that does not name the user.
QuotaKey_Shared(userID, t) == "execution_quota:" \o Date(t)

\* fmt.Sprintf("execution_quota:%s:%s", user.ID, date)
QuotaKey(userID, t) == "execution_quota:" \o userID \o ":" \o Date(t)

\* The lifetime given to a daily counter: 24*time.Hour.
QuotaTTL == DayLen

\* if count >= maxExecutions
QuotaExceeded(count, maxExecutions) == count >= maxExecutions

\* Auth.ExecutionQuotaMiddleware
ExecutionQuotaMiddleware(c) ==
    IF ~c.hasUser
    THEN Abort(JSON(c, 500, "user not found in context"))
    ELSE
    LET key == QuotaKey(c.user.ID, c.w.now)
        got == RedisGet(c.w.redis, key, c.req.down)
        maxExecutions ==
            QuotaValue(c.user.Quota, "max_executions_per_day", MaxExecutionsPerDay)
        obs == [key |-> key, outcome |-> "", prior |-> got.val,
                limit |-> maxExecutions]
    IN  IF got.err = "Nil"
        THEN Next([c EXCEPT
                 !.w.redis = RedisSet(@, key, 1, QuotaTTL, c.w.now, c.req.down),
                 !.quota = [obs EXCEPT !.outcome = "create"]])
        ELSE IF got.err = ""
        THEN IF QuotaExceeded(got.val, maxExecutions)
             THEN Abort(JSON([c EXCEPT !.quota = [obs EXCEPT !.outcome = "reject"]],
                             429, "daily execution quota exceeded"))
             ELSE Next([c EXCEPT
                      !.w.redis = RedisIncr(@, key, c.req.down),
                      !.quota = [obs EXCEPT !.outcome = "incr"]])
        ELSE Next([c EXCEPT !.quota = [obs EXCEPT !.outcome = "open"]])

\* middleware.TrackExecution(redisClient, userID)
TrackExecution(store, userID, t, down) ==
    IF down THEN store
    ELSE RedisExpire(RedisIncr(store, QuotaKey(userID, t), down),
                     QuotaKey(userID, t), QuotaTTL, t, down)

---------------------------------------------------------------------------
(* The execution controller.                                               *)

\* Timeout granting any positive request, however long.
Timeout_Unclamped(user, request) ==
    IF request.timeout.set /\ request.timeout.v > 0
    THEN request.timeout.v
    ELSE ContainerTimeout

\* The timeout handed to the queue (ExecuteCode, "Determine timeout").
Timeout(user, request) ==
    LET maxExecutionTime ==
            QuotaValue(user.Quota, "max_execution_time", ContainerTimeout)
    IN  IF request.timeout.set /\ request.timeout.v > 0
           /\ request.timeout.v < maxExecutionTime
        THEN request.timeout.v
        ELSE maxExecutionTime

\* The row ExecuteCode records before the queue assigns the task id.
NewExecution(id, user, request, t) ==
    [ID |-> id, UserID |-> user.ID, DatasetID |-> request.dataset_id,
     Code |-> request.code, Status |-> "queued", Results |-> "",
     StartTime |-> 0, EndTime |-> 0, Error |-> "", CreatedAt |-> t]

\* go ec.processExecution(taskID, request.DatasetID, user.ID)
NewDriver(taskID, datasetID, userID) ==
    [taskID |-> taskID, datasetID |-> datasetID, userID |-> userID,
     pc |-> "load", execution |-> NoExecution]

\* A dataset check that refuses nobody.
DatasetDenied_Nobody(dataset, user) == FALSE

\* dataset.UserID != user.ID && !isAdmin
DatasetDenied(dataset, user) == Datasets[dataset] # user.ID /\ ~IsAdmin(user)

\* ExecuteCode from "Update execution record with task ID" on: the row is
\* saved under the queue's id, the execution is tracked, the driver started.
ExecuteSubmitted(c, execution, taskID) ==
    LET saved == [execution EXCEPT !.ID = taskID]
    IN  JSON([c EXCEPT
                !.w.executions = DBSave(@, saved),
                !.w.redis = TrackExecution(@, c.user.ID, c.w.now, c.req.track_down),
                !.w.drivers = Append(@, NewDriver(taskID, c.req.body.dataset_id,
                                                  c.user.ID))],
             202, [task_id |-> taskID, status |-> "queued"])

\* ExecutionController.ExecuteCode
ExecuteCode(c) ==
    LET request == c.req.body IN
    IF ~c.hasUser THEN JSON(c, 500, "user not found in context")
    ELSE IF ~request.ok THEN JSON(c, 400, "bad request")
    ELSE IF request.dataset_id \notin DOMAIN Datasets
    THEN JSON(c, 404, "dataset not found")
    ELSE IF DatasetDenied(request.dataset_id, c.user)
    THEN JSON(c, 403, "no access to this dataset")
    ELSE
    LET timeout == Timeout(c.user, request)
        execution == NewExecution("uuid-" \o ToString(c.w.uuids + 1), c.user,
                                  request, c.w.now)
        created == DBCreate(c.w.executions, execution)
        c1 == [c EXCEPT !.w.uuids = @ + 1, !.w.executions = created.tbl]
        taskID == SubmitCodeExecution(request.dataset_id, request.code,
                                      c.user.Username, timeout, "normal", c.w.now)
    IN  IF created.err THEN JSON(c1, 500, "failed to record execution")
        ELSE ExecuteSubmitted([c1 EXCEPT !.submit = [called |-> TRUE,
                                                     timeout |-> timeout]],
                              execution, taskID)

\* An ownership check that refuses nobody.
TaskDenied_Nobody(execution, user) == FALSE

\* execution.UserID != user.ID && !isAdmin
TaskDenied(execution, user) == execution.UserID # user.ID /\ ~IsAdmin(user)

\* ExecutionController.GetTaskStatus
GetTaskStatus(c) ==
    LET found == DBFirst(c.w.executions, c.req.task_id) IN
    IF ~c.hasUser THEN JSON(c, 500, "user not found in context")
    ELSE IF found.err THEN JSON(c, 404, "task not found")
    ELSE IF TaskDenied(found.row, c.user)
    THEN JSON(c, 403, "no permission to view this task")
    ELSE JSON(c, 200, QueueGetTaskStatus(c.req.task_id))

\* The row CancelTask saves: its copy of the row, cancelled and end-stamped.
Cancelled(execution, t) ==
    [execution EXCEPT !.Status = "cancelled", !.EndTime = t]

\* CancelTask up to "Try to cancel the task": the row is read and the
\* requester checked against it.
CancelLookup(c) ==
    LET found == DBFirst(c.w.executions, c.req.task_id) IN
    IF ~c.hasUser
    THEN [refused |-> TRUE, row |-> found.row,
          c |-> JSON(c, 500, "user not found in context")]
    ELSE IF found.err
    THEN [refused |-> TRUE, row |-> found.row, c |-> JSON(c, 404, "task not found")]
    ELSE IF TaskDenied(found.row, c.user)
    THEN [refused |-> TRUE, row |-> found.row,
          c |-> JSON(c, 403, "no permission to cancel this task")]
    ELSE [refused |-> FALSE, row |-> found.row, c |-> c]

\* CancelTask from "Try to cancel the task" on, with the row it has read.
CancelFinish(c, execution) ==
    IF ~QueueCancelTask(c.req.task_id, c.user.Username)
    THEN JSON(c, 400, "failed to cancel task")
    ELSE JSON([c EXCEPT !.w.executions = DBSave(@, Cancelled(execution, c.w.now))],
              200, [status |-> "cancelled"])

\* ExecutionController.CancelTask
CancelTask(c) ==
    LET l == CancelLookup(c) IN
    IF l.refused THEN l.c ELSE CancelFinish(c, l.row)

\* A Where that selects every row, whoever owns it.
DBWhereUser_All(tbl, userID) == DOMAIN tbl

\* ec.DB.Where("user_id = ?", user.ID): the keys of the rows selected.
DBWhereUser(tbl, userID) == {id \in DOMAIN tbl : tbl[id].UserID = userID}

\* Order("created_at DESC").Find(&executions): the selected rows, each once,
\* none before a row created later; rows created at the same time come in
\* whatever order the database gives them.
DBOrderCreatedDesc(tbl, ids) ==
    {order \in [1..Cardinality(ids) -> ids] :
        /\ \A i, j \in DOMAIN order : i # j => order[i] # order[j]
        /\ \A i, j \in DOMAIN order :
              i < j => tbl[order[i]].CreatedAt >= tbl[order[j]].CreatedAt}

\* ExecutionController.GetUserExecutions, the query answering with `order`.
GetUserExecutions(c, order) ==
    IF ~c.hasUser THEN JSON(c, 500, "user not found in context")
    ELSE JSON(c, 200, [i \in DOMAIN order |-> c.w.executions[order[i]]])

\* user.ToUserResponse()
ToUserResponse(user) ==
    [ID |-> user.ID, Username |-> user.Username, Email |-> user.Email,
     FullName |-> user.FullName, Disabled |-> user.Disabled,
     Roles |-> user.Roles,
     Quota |-> IF user.Quota.kind = "map" THEN user.Quota.m ELSE EmptyMap]

\* ac.DB.Where("id = ?", id).First(&user): the key of the row in the table.
UserByID(tbl, id) ==
    IF \E u \in DOMAIN tbl : tbl[u].ID = id
    THEN [err |-> FALSE, key |-> CHOOSE u \in DOMAIN tbl : tbl[u].ID = id]
    ELSE [err |-> TRUE, key |-> ""]

\* user.SetPassword(password): the bcrypt hash of the password.
Hash(password) == "hash:" \o password

\* models.UserUpdate when the body does not bind.
NoUpdate ==
    [ok |-> FALSE, email |-> "", full_name |-> "", password |-> "",
     disabled |-> [set |-> FALSE, v |-> FALSE], roles |-> [set |-> FALSE, v |-> {}],
     quota |-> [kind |-> "empty"]]

\* UpdateUser, "Update user fields": what every user may change.
UpdateOwnFields(user, userUpdate) ==
    [user EXCEPT
        !.Email = IF userUpdate.email # "" THEN userUpdate.email ELSE @,
        !.FullName = IF userUpdate.full_name # "" THEN userUpdate.full_name ELSE @,
        !.HashedPassword = IF userUpdate.password # ""
                           THEN Hash(userUpdate.password) ELSE @]

\* UpdateUser, "Only admin can change these fields".
UpdateAdminFields(user, userUpdate) ==
    [user EXCEPT
        !.Disabled = IF userUpdate.disabled.set THEN userUpdate.disabled.v ELSE @,
        !.Roles = IF userUpdate.roles.set THEN userUpdate.roles.v ELSE @,
        !.Quota = IF userUpdate.quota.kind # "empty" THEN userUpdate.quota ELSE @]

\* AuthController.UpdateUser
UpdateUser(c) ==
    LET userUpdate == c.req.update
        found == UserByID(c.w.users, c.user.ID)
    IN  IF ~c.hasUser THEN JSON(c, 500, "user not found in context")
        ELSE IF ~userUpdate.ok THEN JSON(c, 400, "bad request")
        ELSE IF found.err THEN JSON(c, 404, "user not found")
        ELSE
        LET user == c.w.users[found.key] IN
        IF /\ userUpdate.email # ""
           /\ \E u \in DOMAIN c.w.users :
                 c.w.users[u].Email = userUpdate.email /\ c.w.users[u].ID # user.ID
        THEN JSON(c, 400, "email already registered")
        ELSE
        LET own == UpdateOwnFields(user, userUpdate)
            saved == IF IsAdmin(c.user) THEN UpdateAdminFields(own, userUpdate)
                     ELSE own
        IN  JSON([c EXCEPT !.w.users = Put(@, found.key, saved)],
                 200, ToUserResponse(saved))

\* models.UserCreate when the body does not bind.
NoCreate == [ok |-> FALSE, username |-> "", email |-> "", full_name |-> "",
             password |-> ""]

\* Register: the row of a new user, with the default quota.
NewUser(userCreate) ==
    [ID |-> "id-" \o userCreate.username, Username |-> userCreate.username,
     Email |-> userCreate.email, FullName |-> userCreate.full_name,
     HashedPassword |-> Hash(userCreate.password), Disabled |-> FALSE,
     Roles |-> {"user"},
     Quota |-> QuotaOf([name \in {"max_datasets", "max_dataset_size_mb",
                                   "max_executions_per_day", "max_execution_time"} |->
                          CASE name = "max_datasets" -> 10
                            [] name = "max_dataset_size_mb" -> 2000
                            [] name = "max_executions_per_day" -> MaxExecutionsPerDay
                            [] name = "max_execution_time" -> ContainerTimeout])]

\* AuthController.Register
Register(c) ==
    LET userCreate == c.req.create IN
    IF ~userCreate.ok THEN JSON(c, 400, "bad request")
    ELSE IF userCreate.username \in DOMAIN c.w.users
    THEN JSON(c, 400, "username already registered")
    ELSE IF \E u \in DOMAIN c.w.users : c.w.users[u].Email = userCreate.email
    THEN JSON(c, 400, "email already registered")
    ELSE JSON([c EXCEPT !.w.users = Put(@, userCreate.username, NewUser(userCreate))],
              201, ToUserResponse(NewUser(userCreate)))

\* ExecutionController.GetQueueStatus
GetQueueStatus(c) ==
    JSON(c, 200, [queued |-> 0, running |-> 0, completed |-> 0, failed |-> 0])

\* AuthController.ListUsers
ListUsers(c) == JSON(c, 200, [users |-> DOMAIN c.w.users])

\* One handler of a chain, called with the context; `ran` keeps the order in
\* which the handlers were entered.
Invoke(h, c) ==
    LET d == [c EXCEPT !.ran = Append(@, h)] IN
    CASE h = "CORSMiddleware" -> CORSMiddleware(d)
      [] h = "RateLimitMiddleware" -> RateLimitMiddleware(d)
      [] h = "AuthMiddleware" -> AuthMiddleware(d)
      [] h = "AdminMiddleware" -> AdminMiddleware(d)
      [] h = "ExecutionQuotaMiddleware" -> ExecutionQuotaMiddleware(d)
      [] h = "ExecuteCode" -> ExecuteCode(d)
      [] h = "GetTaskStatus" -> GetTaskStatus(d)
      [] h = "CancelTask" -> CancelTask(d)
      [] h = "GetQueueStatus" -> GetQueueStatus(d)
      [] h = "ListUsers" -> ListUsers(d)
      [] h = "UpdateUser" -> UpdateUser(d)
      [] h = "Register" -> Register(d)

\* The handlers gin runs for a route: the engine's (main.go), then the
\* groups' (routes.go), then the endpoint's.
Engine == <<"CORSMiddleware", "RateLimitMiddleware">>

Chain(route) ==
    CASE route = "POST /execute" ->
            Engine \o <<"AuthMiddleware", "ExecutionQuotaMiddleware", "ExecuteCode">>
      [] route = "GET /tasks/:task_id" ->
            Engine \o <<"AuthMiddleware", "GetTaskStatus">>
      [] route = "DELETE /tasks/:task_id" ->
            Engine \o <<"AuthMiddleware", "CancelTask">>
      [] route = "GET /admin/queue-status" ->
            Engine \o <<"AuthMiddleware", "AdminMiddleware", "GetQueueStatus">>
      [] route = "GET /auth/admin/users" ->
            Engine \o <<"AdminMiddleware", "ListUsers">>
      [] route = "PUT /auth/users/me" ->
            Engine \o <<"AuthMiddleware", "UpdateUser">>
      [] route = "POST /auth/register" ->
            Engine \o <<"Register">>

Routes == {"POST /execute", "GET /tasks/:task_id", "DELETE /tasks/:task_id",
           "GET /admin/queue-status", "GET /auth/admin/users",
           "PUT /auth/users/me", "POST /auth/register"}

\* engine.handleHTTPRequest: the chain is run from its first handler.
Serve(req, w) == Next(NewContext(Chain(req.route), req, w))

---------------------------------------------------------------------------
(* The requests clients send.                                              *)

NoAuth == [kind |-> "none", sub |-> ""]

Bearer(u) == [kind |-> "bearer", sub |-> u]

Auths == {NoAuth} \cup {Bearer(u) : u \in {"alice", "bob", "root"}}

NoTimeout == [set |-> FALSE, v |-> 0]

NoBody == [ok |-> FALSE, dataset_id |-> "", code |-> "", timeout |-> NoTimeout]

\* models.CodeExecutionRequest; ok: the JSON binds (both required fields).
Bodies ==
    {[ok |-> TRUE, dataset_id |-> d, code |-> "print(1)", timeout |-> NoTimeout] :
        d \in {"d1", "d2", "d9"}} \cup {NoBody}

Method(route) ==
    CASE route = "POST /execute" -> "POST"
      [] route = "DELETE /tasks/:task_id" -> "DELETE"
      [] route = "PUT /auth/users/me" -> "PUT"
      [] route = "POST /auth/register" -> "POST"
      [] OTHER -> "GET"

\* The requests that can be sent in the current state; `down`: whether the
\* counter store fails while the request is served.
\* The task ids that responses have disclosed: one per started driver. (The
\* uuid of the row recorded first is never sent to a client.)
TaskIDs == {drivers[i].taskID : i \in DOMAIN drivers}

\* The requests that can be sent to `routes` in the current state by the
\* holders of `auths`; `downs`: whether the counter store may fail meanwhile
\* (down: when a middleware reads it; track_down: when TrackExecution calls).
\* A request carries a body on POST /execute and a task id on the two task
\* routes.
Requests(routes, auths, downs) ==
    {[route |-> r, method |-> Method(r), auth |-> a, ip |-> "10.0.0.1",
      body |-> b, task_id |-> id, down |-> dn, track_down |-> dn] :
        r \in routes \cap {"POST /execute"}, a \in auths, dn \in downs,
        b \in Bodies, id \in {""}}
    \cup
    {[route |-> r, method |-> Method(r), auth |-> a, ip |-> "10.0.0.1",
      body |-> b, task_id |-> id, down |-> dn, track_down |-> dn] :
        r \in routes \cap {"GET /tasks/:task_id", "DELETE /tasks/:task_id"},
        a \in auths, dn \in downs, b \in {NoBody},
        id \in TaskIDs \cup {"task-0"}}
    \cup
    {[route |-> r, method |-> Method(r), auth |-> a, ip |-> "10.0.0.1",
      body |-> b, task_id |-> id, down |-> dn, track_down |-> dn] :
        r \in routes \cap {"GET /admin/queue-status", "GET /auth/admin/users"},
        a \in auths, dn \in downs, b \in {NoBody}, id \in {""}}

---------------------------------------------------------------------------
(* History kept to state the claims: per rate-limit key the window that    *)
(* was opened (when, and how many requests it admitted since), per user    *)
(* the POST /execute requests of the current day, and the requests served. *)

NoWindow == [live |-> FALSE, start |-> 0, admits |-> 0]

WindowOf(st, key) == IF key \in DOMAIN st.rlWin THEN st.rlWin[key] ELSE NoWindow

NoDay == [reqs |-> 0, accepted |-> 0]

DayOf(st, userID) == IF userID \in DOMAIN st.exec THEN st.exec[userID] ELSE NoDay

\* A POST /execute request that ExecuteCode has no reason to refuse.
ValidExecute(req) ==
    /\ req.route = "POST /execute"
    /\ req.auth.kind = "bearer" /\ req.auth.sub \in DOMAIN users
    /\ ~users[req.auth.sub].Disabled
    /\ req.body.ok
    /\ req.body.dataset_id \in DOMAIN Datasets
    /\ ~DatasetDenied(req.body.dataset_id, users[req.auth.sub])

Record(st, req, c) ==
    LET win == WindowOf(st, c.rl.key)
        day == DayOf(st, c.user.ID)
        rlWin == IF c.rl.outcome = "create" /\ ~win.live
                 THEN Put(st.rlWin, c.rl.key,
                          [live |-> TRUE, start |-> c.w.now, admits |-> 1])
                 ELSE IF c.rl.outcome \in {"create", "incr", "open"}
                 THEN Put(st.rlWin, c.rl.key, [win EXCEPT !.admits = @ + 1])
                 ELSE st.rlWin
        exec == IF c.quota.outcome = ""
                THEN st.exec
                ELSE Put(st.exec, c.user.ID,
                         [reqs |-> day.reqs + 1,
                          accepted |-> day.accepted + IF c.status = 202 THEN 1 ELSE 0])
    IN  [rlWin |-> rlWin, exec |-> exec, served |-> st.served + 1]

\* What is forgotten when the clock reaches t: the windows that are over,
\* and the day's submissions when a new day begins.
Forget(st, t) ==
    [st EXCEPT
        !.rlWin = [k \in {x \in DOMAIN @ : t < @[x].start + RateLimitWindow} |-> @[k]],
        !.exec = IF Date(t) = Date(t - 1) THEN @ ELSE EmptyMap]

NoResp == [route |-> "", auth |-> NoAuth, task_id |-> "", t |-> 0, status |-> 0,
           body |-> <<>>, ran |-> <<>>, rl |-> NoObs, quota |-> NoObs,
           window |-> NoWindow, day |-> NoDay, valid |-> FALSE, authed |-> FALSE,
           row |-> NoExecution, count |-> 0, timeout |-> NoTimeout,
           submit |-> NoSubmit, dataset |-> "", down |-> FALSE]

\* The response to req, with what the chain observed and what the history
\* held before the request was served.
Response(req, c) ==
    [route |-> req.route, auth |-> req.auth, task_id |-> req.task_id,
     t |-> now, status |-> c.status, body |-> c.body, ran |-> c.ran,
     rl |-> c.rl, quota |-> c.quota,
     window |-> WindowOf(stats, c.rl.key), day |-> DayOf(stats, c.user.ID),
     valid |-> ValidExecute(req), authed |-> c.hasUser,
     row |-> DBFirst(executions, req.task_id).row,
     count |-> RedisGet(c.w.redis, c.rl.key, FALSE).val,
     timeout |-> req.body.timeout, submit |-> c.submit,
     dataset |-> req.body.dataset_id, down |-> req.down]

---------------------------------------------------------------------------
(* Actions.                                                                *)

Init ==
    /\ now = 1
    /\ redis = EmptyMap
    /\ users = InitUsers
    /\ executions = EmptyMap
    /\ uuids = 0
    /\ drivers = <<>>
    /\ inflight = <<>>
    /\ resp = NoResp
    /\ stats = [rlWin |-> EmptyMap, exec |-> EmptyMap, served |-> 0]

\* A request served from its first handler to its last without any other
\* request in between.
Request(req) ==
    /\ stats.served < MaxRequests
    /\ LET c == Serve(req, World) IN
        /\ Len(c.w.drivers) <= MaxTasks
        /\ redis' = c.w.redis
        /\ users' = c.w.users
        /\ executions' = c.w.executions
        /\ uuids' = c.w.uuids
        /\ drivers' = c.w.drivers
        /\ resp' = Response(req, c)
        /\ stats' = Record(stats, req, c)
    /\ UNCHANGED <<now, inflight>>

\* The clock advances; Redis drops the keys whose time has come.
Tick ==
    /\ now < MaxTime
    /\ now' = now + 1
    /\ redis' = Purge(redis, now + 1)
    /\ stats' = Forget(stats, now + 1)
    /\ resp' = NoResp
    /\ UNCHANGED <<users, executions, uuids, drivers, inflight>>

\* processExecution: "Get execution from database".
DriverLoad(i) ==
    /\ drivers[i].pc = "load"
    /\ LET found == DBFirst(executions, drivers[i].taskID) IN
        drivers' = [drivers EXCEPT
                      ![i].pc = IF found.err THEN "done" ELSE "loaded",
                      ![i].execution = found.row]
    /\ resp' = NoResp
    /\ UNCHANGED <<now, redis, users, executions, uuids, inflight, stats>>

\* The row processExecution saves first.
Running(execution, t) ==
    [execution EXCEPT !.Status = "running", !.StartTime = t]

\* A last save that stores no results.
Completed_NoResults(execution, t) ==
    [execution EXCEPT !.Status = "completed", !.EndTime = t]

\* The row processExecution saves last.
Completed(execution, t) ==
    [execution EXCEPT !.Status = "completed", !.EndTime = t,
                      !.Results = "{\"result\": ...}"]

\* processExecution: "Update status to running".
DriverRun(i) ==
    /\ drivers[i].pc = "loaded"
    /\ LET row == Running(drivers[i].execution, now) IN
        /\ executions' = DBSave(executions, row)
        /\ drivers' = [drivers EXCEPT ![i].pc = "running", ![i].execution = row]
    /\ resp' = NoResp
    /\ UNCHANGED <<now, redis, users, uuids, inflight, stats>>

\* processExecution: "Update status to completed", after the sleep.
DriverComplete(i) ==
    /\ drivers[i].pc = "running"
    /\ LET row == Completed(drivers[i].execution, now) IN
        /\ executions' = DBSave(executions, row)
        /\ drivers' = [drivers EXCEPT ![i].pc = "done", ![i].execution = row]
    /\ resp' = NoResp
    /\ UNCHANGED <<now, redis, users, uuids, inflight, stats>>

Driver == \E i \in DOMAIN drivers : DriverLoad(i) \/ DriverRun(i) \/ DriverComplete(i)

\* The specifications below serve requests one after the other, the counter
\* store never failing; only SpecDrive schedules the drivers of the accepted
\* submissions (as do SpecTasks and Spec, further down).

\* The POST /execute traffic of the registered users.
NextQuota ==
    \/ \E req \in Requests({"POST /execute"}, Auths \ {NoAuth}, {FALSE}) : Request(req)
    \/ Tick

SpecQuota == Init /\ [][NextQuota]_vars

\* Traffic to the task and admin routes, signed in or not.
NextRate ==
    \/ \E req \in Requests(Routes \ {"POST /execute"}, Auths, {FALSE}) : Request(req)
    \/ Tick

SpecRate == Init /\ [][NextRate]_vars

\* The POST /execute traffic of the registered users, with the drivers of
\* the accepted submissions running.
NextDrive ==
    \/ \E req \in Requests({"POST /execute"}, Auths \ {NoAuth}, {FALSE}) : Request(req)
    \/ Driver
    \/ Tick

SpecDrive == Init /\ [][NextDrive]_vars

---------------------------------------------------------------------------
(* Requests served concurrently. A handler that reads the shared store and *)
(* writes it later is two steps, with its local variables kept in          *)
(* `inflight` in between; the other requests, the drivers and the clock    *)
(* may take steps between the two.                                         *)

Remove(seq, i) == SubSeq(seq, 1, i - 1) \o SubSeq(seq, i + 1, Len(seq))

\* The handlers that follow AuthMiddleware on a route of the execution group.
AfterAuth(route) == SubSeq(Chain(route), 4, Len(Chain(route)))

\* The context as the rate limiter and AuthMiddleware hand it on: req comes
\* from a registered user who is not disabled and is within the rate limit.
Admitted(req, w) ==
    [NewContext(AfterAuth(req.route), req, w) EXCEPT
        !.user = w.users[req.auth.sub], !.hasUser = TRUE,
        !.ran = SubSeq(Chain(req.route), 1, 3)]

SetWorld(w) ==
    /\ redis' = w.redis
    /\ users' = w.users
    /\ executions' = w.executions
    /\ uuids' = w.uuids
    /\ drivers' = w.drivers

\* POST /execute: the quota check and ExecuteCode.
Execute(req) ==
    /\ LET c == Next(Admitted(req, World)) IN
        /\ Len(c.w.drivers) <= MaxRunning
        /\ SetWorld(c.w)
        /\ resp' = Response(req, c)
    /\ UNCHANGED <<now, inflight, stats>>

\* GET /tasks/:task_id
Status(req) ==
    /\ LET c == Next(Admitted(req, World)) IN
        /\ SetWorld(c.w)
        /\ resp' = Response(req, c)
    /\ UNCHANGED <<now, inflight, stats>>

\* DELETE /tasks/:task_id, served without another step in between.
Cancel(req) ==
    /\ LET c == Next(Admitted(req, World)) IN
        /\ SetWorld(c.w)
        /\ resp' = Response(req, c)
    /\ UNCHANGED <<now, inflight, stats>>

\* Signed-in users submit executions of datasets they may use, and look up
\* and cancel tasks, while the drivers run; each request is served in one
\* step.
NextTasks ==
    \/ \E req \in Requests({"POST /execute"}, {Bearer("alice")}, {FALSE}) :
          ValidExecute(req) /\ Execute(req)
    \/ \E req \in Requests({"GET /tasks/:task_id"}, Auths \ {NoAuth}, {FALSE}) : Status(req)
    \/ \E req \in Requests({"DELETE /tasks/:task_id"}, Auths \ {NoAuth}, {FALSE}) : Cancel(req)
    \/ Driver
    \/ Tick

SpecTasks == Init /\ [][NextTasks]_vars

\* The goroutine scheduler lets every started driver take its next step.
DriverOf(i) ==
    /\ i \in DOMAIN drivers
    /\ (DriverLoad(i) \/ DriverRun(i) \/ DriverComplete(i))

\* Submissions and cancels while the drivers run, every driver being given
\* its turn.
NextLive ==
    \/ \E req \in Requests({"POST /execute"}, {Bearer("alice")}, {FALSE}) :
          ValidExecute(req) /\ Execute(req)
    \/ \E req \in Requests({"DELETE /tasks/:task_id"}, Auths \ {NoAuth}, {FALSE}) : Cancel(req)
    \/ Driver
    \/ Tick

SpecLive ==
    Init /\ [][NextLive]_vars /\ \A i \in 1..MaxRunning : WF_vars(DriverOf(i))

\* DELETE /tasks/:task_id, first part: a refusal is answered at once, else
\* the handler goes on with the row it has read.
CancelBegin(req) ==
    /\ Len(inflight) < MaxCancels
    /\ LET l == CancelLookup([Admitted(req, World) EXCEPT
                                 !.ran = Append(@, "CancelTask")]) IN
        IF l.refused
        THEN /\ resp' = Response(req, l.c)
             /\ UNCHANGED inflight
        ELSE /\ inflight' = Append(inflight, [req |-> req, execution |-> l.row,
                                              got |-> RedisGet(redis, "", FALSE)])
             /\ resp' = NoResp
    /\ UNCHANGED <<now, redis, users, executions, uuids, drivers, stats>>

\* DELETE /tasks/:task_id, second part: the queue is asked, the row saved.
CancelEnd(i) ==
    /\ inflight[i].req.route = "DELETE /tasks/:task_id"
    /\ LET req == inflight[i].req
           c == CancelFinish([Admitted(req, World) EXCEPT
                                 !.ran = Append(@, "CancelTask")],
                             inflight[i].execution)
       IN  /\ SetWorld(c.w)
           /\ resp' = Response(req, c)
    /\ inflight' = Remove(inflight, i)
    /\ UNCHANGED <<now, stats>>

\* Signed-in users submit executions of datasets they may use, and look up
\* and cancel tasks, while the drivers run.
NextSpec ==
    \/ \E req \in Requests({"POST /execute"}, {Bearer("alice")}, {FALSE}) :
          ValidExecute(req) /\ Execute(req)
    \/ \E req \in Requests({"GET /tasks/:task_id"}, Auths \ {NoAuth}, {FALSE}) : Status(req)
    \/ \E req \in Requests({"DELETE /tasks/:task_id"}, Auths \ {NoAuth}, {FALSE}) :
          CancelBegin(req)
    \/ \E i \in DOMAIN inflight : CancelEnd(i)
    \/ Driver
    \/ Tick

Spec == Init /\ [][NextSpec]_vars

\* The rate limiter, first part: the counter is read.
RateBegin(req) ==
    /\ stats.served + Len(inflight) < MaxRequests
    /\ Len(inflight) < MaxInflight
    /\ inflight' = Append(inflight,
                          [req |-> req, execution |-> NoExecution,
                           got |-> RedisGet(redis, RateLimitKey(req), req.down)])
    /\ resp' = NoResp
    /\ UNCHANGED <<now, redis, users, executions, uuids, drivers, stats>>

\* The rate limiter, second part, and the rest of the chain behind it.
RateEnd(i) ==
    /\ inflight[i].req.route # "DELETE /tasks/:task_id"
    /\ LET req == inflight[i].req
           c == RateLimitDecide([NewContext(Chain(req.route), req, World) EXCEPT
                                    !.index = 1, !.ran = Engine],
                                inflight[i].got)
       IN  /\ SetWorld(c.w)
           /\ resp' = Response(req, c)
           /\ stats' = Record(stats, req, c)
    /\ inflight' = Remove(inflight, i)
    /\ UNCHANGED now

\* Requests to the admin routes pass the rate limiter concurrently.
NextRace ==
    \/ \E req \in Requests({"GET /admin/queue-status", "GET /auth/admin/users"},
                           {NoAuth, Bearer("alice")}, {FALSE}) : RateBegin(req)
    \/ \E i \in DOMAIN inflight : RateEnd(i)
    \/ Tick

SpecRace == Init /\ [][NextRace]_vars

---------------------------------------------------------------------------
(* Claims about requests served one after the other.                       *)

\* The last request was served by the quota check of POST /execute.
ReachedQuota == resp.route = "POST /execute" /\ resp.quota.outcome # ""

\* The daily limit in force for the sender of the last request.
DailyLimit ==
    QuotaValue(users[resp.auth.sub].Quota, "max_executions_per_day",
               MaxExecutionsPerDay)

\* C1: when an identity with daily limit L sends valid POST /execute
\* requests one after the other within one day, the quota check admits each
\* of the first L and rejects the (L+1)-th with the quota-exceeded error.
C1_QuotaAdmitsFirstL ==
    (ReachedQuota /\ resp.valid /\ resp.day.reqs = resp.day.accepted)
        => /\ resp.day.accepted < DailyLimit => resp.status = 202
           /\ resp.day.accepted = DailyLimit =>
                  resp.status = 429 /\ resp.quota.outcome = "reject"

\* The last request was let through by the rate limiter.
RateAdmitted ==
    /\ resp.rl.outcome \in {"create", "incr"}
    /\ Len(resp.ran) > 2 /\ resp.ran[2] = "RateLimitMiddleware"

\* The last request was turned away by the rate limiter.
RateRejected ==
    /\ resp.rl.outcome = "reject"
    /\ resp.status = 429
    /\ resp.ran = <<"CORSMiddleware", "RateLimitMiddleware">>

\* C5: with limit L, a window opened at time T admits exactly L requests of
\* its identity in [T, T + window) and rejects every further one; a request
\* at or after T + window (or the identity's first) is admitted and opens a
\* new window whose count is 1.
C5_FixedWindow ==
    /\ \A k \in DOMAIN stats.rlWin : stats.rlWin[k].admits <= MaxRequestsPerWindow
    /\ resp.route # "" =>
        /\ ~resp.window.live =>
              RateAdmitted /\ resp.rl.outcome = "create" /\ resp.count = 1
        /\ (resp.window.live /\ resp.window.admits < MaxRequestsPerWindow) =>
              RateAdmitted /\ resp.rl.outcome = "incr"
                  /\ resp.count = resp.window.admits + 1
        /\ (resp.window.live /\ resp.window.admits >= MaxRequestsPerWindow) =>
              RateRejected /\ resp.count = resp.window.admits

\* A request is rejected in a window that has admitted its L requests.
C5_Witness == RateRejected /\ resp.window.admits = MaxRequestsPerWindow

\* The last request went to an admin-only route with the token of a user
\* who is registered, not disabled and not an admin.
NonAdminOnAdminRoute ==
    /\ resp.route \in {"GET /admin/queue-status", "GET /auth/admin/users"}
    /\ resp.auth.kind = "bearer" /\ resp.auth.sub \in DOMAIN users
    /\ ~users[resp.auth.sub].Disabled /\ ~IsAdmin(users[resp.auth.sub])

\* C8: for a signed-in requester without the admin role the body of an
\* admin-only handler is never executed and nothing it writes reaches the
\* response.
C8_AdminOnly ==
    NonAdminOnAdminRoute =>
        /\ \A i \in DOMAIN resp.ran : resp.ran[i] \notin {"GetQueueStatus", "ListUsers"}
        /\ resp.status # 200


---------------------------------------------------------------------------
(* Claims about the task records, the drivers and the task routes.         *)

Terminal == {"completed", "failed", "cancelled"}

\* The step accepts no submission: the rows it writes are written by a
\* driver or by a cancel.
NoSubmission == Len(drivers') = Len(drivers)

\* The step is a step of a driver.
DriverStep == NoSubmission /\ drivers' # drivers

\* C2: once a task record is completed, failed or cancelled, no driver
\* write and no cancel changes its status.
C2_TerminalIsFinal ==
    [][NoSubmission =>
         \A id \in DOMAIN executions :
            executions[id].Status \in Terminal =>
                executions'[id].Status = executions[id].Status]_vars

\* C3: a driver never writes running, completed or failed over a record
\* whose stored status is cancelled, so a task cancelled while queued is
\* never run.
C3_DriverRespectsCancel ==
    [][DriverStep =>
         \A id \in DOMAIN executions :
            executions[id].Status = "cancelled" =>
                executions'[id].Status = "cancelled"]_vars

\* C4: when requests of one identity pass the rate limiter concurrently,
\* the requests admitted in one window never exceed the limit.
C4_AdmissionsBounded ==
    \A key \in DOMAIN stats.rlWin :
        stats.rlWin[key].admits <= MaxRequestsPerWindow

\* The last request was a DELETE /tasks/:task_id for an existing record,
\* sent by its owner or by an admin.
CancelByOwnerOrAdmin ==
    /\ resp.route = "DELETE /tasks/:task_id"
    /\ resp.authed
    /\ resp.row # NoExecution
    /\ ~TaskDenied(resp.row, users[resp.auth.sub])

\* C6: a cancel by the owner or an admin reports success (200) only if the
\* record was queued or running; on a terminal record it reports failure
\* (400).
C6_CancelReportsTruth ==
    CancelByOwnerOrAdmin =>
        /\ resp.status = 200 => resp.row.Status \in {"queued", "running"}
        /\ resp.row.Status \in Terminal => resp.status = 400

\* C7: the status that GET /tasks/:task_id returns is the status of the
\* task's record, hence queued or running right after the submission.
C7_StatusIsRecordStatus ==
    (resp.route = "GET /tasks/:task_id" /\ resp.status = 200) =>
        /\ resp.body[1].Status = resp.row.Status
        /\ resp.row.Status = "queued" => resp.body[1].Status \in {"queued", "running"}

\* The last request was a GET or DELETE /tasks/:task_id for an existing
\* record, sent by a signed-in user who neither owns it nor is an admin.
StrangerOnTask ==
    /\ resp.route \in {"GET /tasks/:task_id", "DELETE /tasks/:task_id"}
    /\ resp.authed
    /\ resp.row # NoExecution
    /\ resp.row.UserID # users[resp.auth.sub].ID
    /\ ~IsAdmin(users[resp.auth.sub])

\* C9: a GET or DELETE /tasks/:task_id for an existing task, sent by a
\* signed-in requester who is neither its owner nor an admin, is answered
\* 403.
C9_StrangerForbidden == StrangerOnTask => resp.status = 403

\* A stranger's cancel of an existing task has been refused.
C9_Witness ==
    StrangerOnTask /\ resp.route = "DELETE /tasks/:task_id" /\ resp.status = 403

\* C10: any two accepted submissions are given distinct task ids, also when
\* they are accepted at the same clock reading.
C10_DistinctTaskIDs ==
    \A i, j \in DOMAIN drivers :
        i # j => drivers[i].taskID # drivers[j].taskID

---------------------------------------------------------------------------
(* Claims about what a submission leaves in the registry.                  *)

\* C11: after an accepted submission the registry holds one record for it,
\* under the returned task id; no record is left under the provisional
\* identity the row was created with.
C11_OnlyTaskIDRecords == \A id \in DOMAIN executions : id \in TaskIDs

\* The task ids the queue can hand out while the clock runs.
AllTaskIDs == {"task-" \o ToString(t) : t \in 1..MaxTime}

\* The record of the task is completed, with results and without error.
Done(id) ==
    /\ id \in DOMAIN executions
    /\ executions[id].Status = "completed"
    /\ executions[id].Results # ""
    /\ executions[id].Error = ""

\* The last request was a cancel of the task that was answered 200.
CancelAnswered(id) ==
    /\ resp.route = "DELETE /tasks/:task_id"
    /\ resp.task_id = id
    /\ resp.status = 200

\* C12: when the drivers are scheduled fairly, every accepted submission
\* that is never cancelled eventually has its record completed, with
\* non-empty results and empty error, and the record stays so.
C12_EventuallyCompleted ==
    \A id \in AllTaskIDs :
        ([]~CancelAnswered(id)) => [](id \in TaskIDs => <>[]Done(id))

\* A driver has finished and the record of its task is completed.
C12_Witness ==
    \E i \in DOMAIN drivers :
        /\ drivers[i].pc = "done"
        /\ Done(drivers[i].taskID)
        /\ executions[drivers[i].taskID].EndTime # 0

\* C13: every task record whose status is completed, failed or cancelled
\* has exactly one of results and error non-empty.
C13_TerminalHasOneOutcome ==
    \A id \in DOMAIN executions :
        executions[id].Status \in Terminal =>
            (executions[id].Results # "") # (executions[id].Error # "")

\* C14: a queued record has its start and end timestamps unset (0) and a
\* running record has its end timestamp unset, however the driver and the
\* cancel requests interleave.
C14_TimestampsFollowStatus ==
    \A id \in DOMAIN executions :
        /\ executions[id].Status = "queued" =>
              executions[id].StartTime = 0 /\ executions[id].EndTime = 0
        /\ executions[id].Status = "running" => executions[id].EndTime = 0

\* C15: every task record whose status is queued or running has empty
\* results and empty error.
C15_NoOutcomeBeforeEnd ==
    \A id \in DOMAIN executions :
        executions[id].Status \in {"queued", "running"} =>
            executions[id].Results = "" /\ executions[id].Error = ""

\* C16: a second cancel of a task that is already cancelled has no effect:
\* it reports false (400), neither success nor a server error, and the
\* record keeps the status and the end timestamp of the first cancel.
C16_SecondCancelNoEffect ==
    (CancelByOwnerOrAdmin /\ resp.row.Status = "cancelled") =>
        /\ resp.status = 400
        /\ executions[resp.task_id].Status = "cancelled"
        /\ executions[resp.task_id].EndTime = resp.row.EndTime

---------------------------------------------------------------------------
(* Claims about the admission counters.                                    *)

\* The last request was a POST /execute that ExecuteCode refused as
\* malformed (400) or for a dataset the requester may not use (403).
RefusedByExecuteCode ==
    /\ resp.route = "POST /execute"
    /\ \E i \in DOMAIN resp.ran : resp.ran[i] = "ExecuteCode"
    /\ resp.status \in {400, 403}

\* C17: a POST /execute that is refused as malformed (400) or because the
\* requester may not use the dataset (403) leaves the requester's daily
\* execution counter as it was.
C17_RefusalLeavesQuota ==
    [][RefusedByExecuteCode' =>
         RedisGet(redis', resp'.quota.key, FALSE)
             = RedisGet(redis, resp'.quota.key, FALSE)]_vars

\* The rate limiter found the counter of the last request at its limit.
RateLimited == resp.rl.outcome = "reject"

\* The quota check found the daily counter of the last request at its limit.
QuotaRejected == resp.quota.outcome = "reject"

\* The step leaves the registry and the drivers as they were.
NoTaskEffect ==
    executions' = executions /\ drivers' = drivers /\ uuids' = uuids

\* The step leaves every counter but the one under `key` as it was.
OnlyCounter(key) ==
    \A k \in (DOMAIN redis \cup DOMAIN redis') \ {key} :
        /\ k \in DOMAIN redis <=> k \in DOMAIN redis'
        /\ k \in DOMAIN redis => redis'[k] = redis[k]

\* C18 (as stated): a request rejected by the rate limiter or by the quota
\* check changes no counter, creates or modifies no task record and starts
\* no driver; a request rejected by the rate limiter never reaches the quota
\* check.
C18_RejectionChangesNothing ==
    [][(RateLimited' \/ QuotaRejected') =>
         /\ resp'.status = 429
         /\ redis' = redis
         /\ NoTaskEffect
         /\ RateLimited' => resp'.ran = <<"CORSMiddleware", "RateLimitMiddleware">>]_vars

\* C18 (amended): a request rejected by the rate limiter changes no counter
\* and never reaches the quota check; a request rejected by the quota check
\* goes no further and changes no counter but the rate-limit counter of its
\* sender, which has counted it; neither creates or modifies a task record
\* or starts a driver.
C18_RejectionFrame ==
    [][/\ RateLimited' =>
            /\ resp'.status = 429
            /\ resp'.ran = <<"CORSMiddleware", "RateLimitMiddleware">>
            /\ redis' = redis
            /\ NoTaskEffect
       /\ QuotaRejected' =>
            /\ resp'.status = 429
            /\ resp'.ran[Len(resp'.ran)] = "ExecutionQuotaMiddleware"
            /\ OnlyCounter(resp'.rl.key)
            /\ NoTaskEffect]_vars

\* A request has been rejected by the quota check after the rate limiter
\* counted it.
C18_Witness == QuotaRejected /\ resp.rl.outcome \in {"create", "incr"}

\* C19: the expiry of a counter key (rate-limit or daily-quota) is set when
\* the key is created, and no later operation on the key, neither an
\* increment by a middleware nor TrackExecution, changes or extends it.
C19_ExpiryFixedAtCreation ==
    [][\A k \in DOMAIN redis \cap DOMAIN redis' :
          redis'[k].exp = redis[k].exp]_vars

\* C20: every counter key in the store has an expiry set, whatever the
\* interleaving of the requests and the expiry of keys.
C20_EveryCounterExpires == \A k \in DOMAIN redis : redis[k].exp # NoTTL

---------------------------------------------------------------------------
(* Quota blobs and requested timeouts.                                     *)

\* The names ExecutionQuotaMiddleware and ExecuteCode look up in a blob.
QuotaNames == {"max_executions_per_day", "max_execution_time"}

\* The integers a blob may hold under a name: negative, zero, below and
\* above the system defaults.
QuotaInts == {0 - 1, 0, 1, ContainerTimeout + 1}

\* user.Quota as an administrator may have set it (UpdateUser stores the raw
\* JSON it is sent): nothing, JSON that is no object of integers, or an
\* object holding integers under some of the names.
Blobs ==
    {[kind |-> "empty"], [kind |-> "bad"]}
    \cup {QuotaOf(m) : m \in UNION {[names -> QuotaInts] : names \in SUBSET QuotaNames}}

\* request.Timeout (*int): absent, or an integer around the defaults.
Timeouts ==
    {NoTimeout} \cup {[set |-> TRUE, v |-> v] : v \in (0 - 1)..(ContainerTimeout + 2)}

\* POST /execute by `auths` on their own dataset d1, with any timeout, or
\* with a body that does not bind.
TimedRequests(auths) ==
    {[route |-> "POST /execute", method |-> "POST", auth |-> a, ip |-> "10.0.0.1",
      body |-> b, task_id |-> "", down |-> FALSE, track_down |-> FALSE] :
        a \in auths,
        b \in {[ok |-> TRUE, dataset_id |-> "d1", code |-> "print(1)",
                timeout |-> t] : t \in Timeouts} \cup {NoBody}}

\* The state after construction, alice's quota being any blob.
InitBlob ==
    /\ now = 1
    /\ redis = EmptyMap
    /\ \E blob \in Blobs : users = [InitUsers EXCEPT !["alice"].Quota = blob]
    /\ executions = EmptyMap
    /\ uuids = 0
    /\ drivers = <<>>
    /\ inflight = <<>>
    /\ resp = NoResp
    /\ stats = [rlWin |-> EmptyMap, exec |-> EmptyMap, served |-> 0]

\* alice's POST /execute traffic, one request after the other.
NextBlob ==
    \/ \E req \in TimedRequests({Bearer("alice")}) : Request(req)
    \/ Tick

SpecBlob == InitBlob /\ [][NextBlob]_vars

\* The value an identity's blob configures under `name`, case by case.
Configured(blob, name, dflt) ==
    CASE blob.kind = "empty" -> dflt
      [] blob.kind = "bad" -> dflt
      [] blob.kind = "map" ->
            IF name \notin DOMAIN blob.m THEN dflt
            ELSE IF blob.m[name] <= 0 THEN dflt
            ELSE blob.m[name]

\* The quota check compared the counter against a limit.
Compared == resp.route = "POST /execute" /\ resp.quota.outcome \in {"incr", "reject"}

\* C21: the daily limit the quota check compares the counter against is the
\* identity's own max_executions_per_day when its blob parses and holds a
\* value greater than zero, and the system default when the blob is absent,
\* malformed, lacks the key or holds a non-positive value; the request is
\* rejected exactly when the counter has reached that limit, so a malformed
\* blob never causes a rejection by itself.
C21_DailyLimitFromBlob ==
    Compared =>
        LET limit == Configured(users[resp.auth.sub].Quota,
                                "max_executions_per_day", MaxExecutionsPerDay)
        IN  /\ resp.quota.limit = limit
            /\ (resp.quota.outcome = "reject") <=> (resp.quota.prior >= limit)
            /\ resp.quota.outcome = "reject" => resp.status = 429
            /\ resp.quota.outcome = "incr" => resp.status # 429

\* A request of an identity with a malformed blob passed the comparison
\* against the system default.
C21_Witness ==
    /\ Compared
    /\ users[resp.auth.sub].Quota.kind = "bad"
    /\ resp.quota.outcome = "incr"
    /\ resp.quota.limit = MaxExecutionsPerDay

\* ExecuteCode handed the submission to the task queue.
Submitted == resp.route = "POST /execute" /\ resp.submit.called

\* C27: the timeout passed to the queue never exceeds the identity's
\* effective max_execution_time (the quota value if present and greater than
\* zero, else the system default): it equals the requested timeout when
\* 0 < requested < maximum, and the maximum when the requested value is
\* absent, non-positive or not below the maximum.
C27_TimeoutClamped ==
    Submitted =>
        LET maximum == Configured(users[resp.auth.sub].Quota,
                                  "max_execution_time", ContainerTimeout)
            requested == resp.timeout
            below == requested.set /\ 0 < requested.v /\ requested.v < maximum
        IN  /\ resp.submit.timeout <= maximum
            /\ below => resp.submit.timeout = requested.v
            /\ ~below => resp.submit.timeout = maximum

\* A submission asked for more than the maximum of its identity's blob and
\* was handed to the queue with that maximum.
C27_Witness ==
    /\ Submitted
    /\ users[resp.auth.sub].Quota.kind = "map"
    /\ "max_execution_time" \in DOMAIN users[resp.auth.sub].Quota.m
    /\ users[resp.auth.sub].Quota.m["max_execution_time"] > 0
    /\ resp.timeout.set
    /\ resp.timeout.v > users[resp.auth.sub].Quota.m["max_execution_time"]
    /\ resp.submit.timeout = users[resp.auth.sub].Quota.m["max_execution_time"]

---------------------------------------------------------------------------
(* Submissions, their drivers and the administrator's view of the queue.   *)

\* Submissions by alice and by the administrator, queue-status requests by
\* both, the drivers of the accepted submissions running meanwhile.
NextQueue ==
    \/ \E req \in Requests({"POST /execute", "GET /admin/queue-status"},
                           {Bearer("alice"), Bearer("root")}, {FALSE}) : Request(req)
    \/ Driver
    \/ Tick

SpecQueue == Init /\ [][NextQueue]_vars

\* The statuses GET /admin/queue-status reports on.
QueueStatuses == {"queued", "running", "completed", "failed"}

\* The number of task records currently in status s.
InStatus(s) == Cardinality({id \in DOMAIN executions : executions[id].Status = s})

\* C22: GET /admin/queue-status returns (to an administrator), for each
\* status, the number of task records currently in that status.
C22_QueueStatusCounts ==
    (/\ resp.route = "GET /admin/queue-status"
     /\ resp.auth = Bearer("root")
     /\ resp.status = 200) =>
        \A s \in QueueStatuses : resp.body[1][s] = InStatus(s)

---------------------------------------------------------------------------
(* Listing the executions of a user.                                       *)

\* GetUserExecutions called for user u behind AuthMiddleware. (routes.go
\* registers the handler on no route; the name below stands for the call.)
ListRequest(u) ==
    [route |-> "GetUserExecutions", method |-> "GET", auth |-> Bearer(u),
     ip |-> "10.0.0.1", body |-> NoBody, task_id |-> "", down |-> FALSE,
     track_down |-> FALSE]

UserExecutions(u) ==
    /\ \E order \in DBOrderCreatedDesc(executions, DBWhereUser(executions, users[u].ID)) :
          LET req == ListRequest(u)
              c == GetUserExecutions(
                       [NewContext(<<"GetUserExecutions">>, req, World) EXCEPT
                           !.index = 0, !.user = users[u], !.hasUser = TRUE,
                           !.ran = <<"GetUserExecutions">>],
                       order)
          IN  resp' = Response(req, c)
    /\ UNCHANGED <<now, redis, users, executions, uuids, drivers, inflight, stats>>

\* Submissions by alice and bob on their own datasets, the counter store
\* failing or not, and the listing of their executions.
NextList ==
    \/ \E req \in Requests({"POST /execute"}, {Bearer("alice"), Bearer("bob")},
                           {FALSE, TRUE}) : ValidExecute(req) /\ Request(req)
    \/ \E u \in {"alice", "bob"} : UserExecutions(u)
    \/ Tick

SpecList == Init /\ [][NextList]_vars

\* The listing of an identity's executions was answered.
Listed == resp.route = "GetUserExecutions" /\ resp.status = 200

\* C23: listing an identity's executions returns exactly the records whose
\* owner is that identity (each of them, once, as stored, and no record of
\* another owner), ordered newest first by creation time.
C23_ListOwnNewestFirst ==
    Listed =>
        LET rows == resp.body[1]
            owner == users[resp.auth.sub].ID
        IN  /\ \A i \in DOMAIN rows :
                  /\ rows[i].UserID = owner
                  /\ rows[i].ID \in DOMAIN executions
                  /\ rows[i] = executions[rows[i].ID]
            /\ \A id \in DOMAIN executions :
                  executions[id].UserID = owner =>
                      \E i \in DOMAIN rows : rows[i].ID = id
            /\ \A i, j \in DOMAIN rows : i # j => rows[i].ID # rows[j].ID
            /\ \A i, j \in DOMAIN rows :
                  i < j => rows[i].CreatedAt >= rows[j].CreatedAt

\* A listing of records created at different times.
C23_Witness ==
    /\ Listed
    /\ Len(resp.body[1]) >= 2
    /\ resp.body[1][1].CreatedAt > resp.body[1][Len(resp.body[1])].CreatedAt

---------------------------------------------------------------------------
(* Claims about counters, pick-up and what a record keeps.                 *)

\* The last request was a submission that was accepted.
Accepted == resp.route = "POST /execute" /\ resp.status = 202

\* C24: each accepted submission increases its identity's daily counter by
\* exactly one (so that after k accepted submissions in a day the counter
\* equals k).
C24_AcceptedCountsOnce ==
    [][Accepted' =>
         RedisGet(redis', resp'.quota.key, FALSE).val
             = RedisGet(redis, resp'.quota.key, FALSE).val + 1]_vars

\* C25: no identity is throttled forever: whenever the rate-limit counter of
\* an identity stands at the limit, so that its requests are rejected, the
\* counter has an expiry no further away than the window duration, and a
\* request made after that is admitted again; this under any interleaving of
\* the identity's requests with the expiry of its key.
C25_ThrottlingEnds ==
    \A key \in DOMAIN redis :
        RateLimitExceeded(redis[key].val) =>
            /\ redis[key].exp # NoTTL
            /\ redis[key].exp <= now + RateLimitWindow

\* C26: a cancel never erases what the driver has recorded: once a record
\* has its start timestamp set or non-empty results, no later write of a
\* driver or of a cancel resets that field, however the cancel's read and
\* write interleave with the driver's writes.
C26_CancelKeepsDriverWrites ==
    [][NoSubmission =>
         \A id \in DOMAIN executions :
            /\ executions[id].StartTime # 0 => executions'[id].StartTime # 0
            /\ executions[id].Results # "" => executions'[id].Results # ""]_vars

\* C28: each task is picked up at most once: its record becomes running at
\* most once (a record that becomes running has never been started before),
\* and a record that is completed or failed never becomes running again.
C28_PickedUpOnce ==
    [][\A id \in DOMAIN executions :
          /\ (executions[id].Status # "running" /\ executions'[id].Status = "running")
                => executions[id].StartTime = 0
          /\ executions[id].Status \in {"completed", "failed"}
                => executions'[id].Status # "running"]_vars

\* The step serves a request of a signed-in identity that neither owns the
\* record stored under id nor is an admin.
StrangerRequest(id) ==
    /\ resp'.route # ""
    /\ resp'.authed
    /\ executions[id].UserID # users[resp'.auth.sub].ID
    /\ ~IsAdmin(users[resp'.auth.sub])

\* C29: no request from an identity that is neither a task's owner nor an
\* admin changes any field of that task's record.
C29_StrangerChangesNothing ==
    [][\A id \in DOMAIN executions \cap TaskIDs :
          StrangerRequest(id) =>
              id \in DOMAIN executions' /\ executions'[id] = executions[id]]_vars

\* C30: the owner, the target dataset and the code of a task record never
\* change once it exists under its task id, whatever submissions (by any
\* identity), driver writes or cancels follow.
C30_IdentityFieldsFixed ==
    [][\A id \in DOMAIN executions \cap TaskIDs :
          /\ id \in DOMAIN executions'
          /\ executions'[id].UserID = executions[id].UserID
          /\ executions'[id].DatasetID = executions[id].DatasetID
          /\ executions'[id].Code = executions[id].Code]_vars

---------------------------------------------------------------------------
(* Claims about who may write what.                                        *)

\* The last request was a submission by a signed-in identity that named a
\* dataset which does not exist, or which another identity owns while the
\* sender is no admin.
ForeignDataset ==
    /\ resp.route = "POST /execute"
    /\ resp.authed
    /\ resp.dataset # ""
    /\ \/ resp.dataset \notin DOMAIN Datasets
       \/ /\ Datasets[resp.dataset] # users[resp.auth.sub].ID
          /\ ~IsAdmin(users[resp.auth.sub])

\* C31: every task record was created by a requester who owned the target
\* dataset or held the admin role at submission time; a submission naming a
\* nonexistent dataset or a dataset owned by another identity creates no
\* task record and starts no lifecycle driver.
C31_RecordsOnOwnDatasets ==
    /\ [](\A id \in DOMAIN executions :
             /\ executions[id].DatasetID \in DOMAIN Datasets
             /\ \/ Datasets[executions[id].DatasetID] = executions[id].UserID
                \/ \E u \in DOMAIN users :
                      users[u].ID = executions[id].UserID /\ IsAdmin(users[u]))
    /\ [][ForeignDataset' => NoTaskEffect]_vars

\* A submission on another identity's dataset has been refused while the
\* registry already held a record.
C31_Witness ==
    /\ ForeignDataset
    /\ resp.dataset \in DOMAIN Datasets
    /\ resp.status = 403
    /\ executions # EmptyMap

---------------------------------------------------------------------------
(* Users updating their own record.                                        *)

\* The updates a client may send: of one of the fields every user may
\* change, of the fields reserved to admins (together with the full name), or
\* a body that does not bind.
Updates ==
    {[NoUpdate EXCEPT !.ok = TRUE, !.email = e] : e \in {"bob@x", "new@x"}}
    \cup {[NoUpdate EXCEPT !.ok = TRUE, !.full_name = "A"],
          [NoUpdate EXCEPT !.ok = TRUE, !.password = "password1"]}
    \cup
    {[NoUpdate EXCEPT !.ok = TRUE, !.full_name = "B", !.disabled = d, !.roles = r,
                      !.quota = q] :
        d \in {[set |-> FALSE, v |-> FALSE], [set |-> TRUE, v |-> TRUE]},
        r \in {[set |-> FALSE, v |-> {}], [set |-> TRUE, v |-> {}],
               [set |-> TRUE, v |-> {"user", "admin"}]},
        q \in {[kind |-> "empty"],
               QuotaOf([n \in {"max_executions_per_day"} |-> MaxExecutionsPerDay + 2])}}
    \cup {NoUpdate}

\* PUT /auth/users/me by the holders of `auths`.
UpdateRequests(auths) ==
    {[route |-> "PUT /auth/users/me", method |-> "PUT", auth |-> a,
      ip |-> "10.0.0.1", body |-> NoBody, task_id |-> "", down |-> FALSE,
      track_down |-> FALSE, update |-> u] : a \in auths, u \in Updates}

\* alice and the administrator updating their records.
NextUsers ==
    \/ \E req \in UpdateRequests({Bearer("alice"), Bearer("root")}) : Request(req)
    \/ Tick

SpecUsers == Init /\ [][NextUsers]_vars

\* The last request was an update-user request of a signed-in requester.
UpdateServed == resp.route = "PUT /auth/users/me" /\ resp.authed

\* C32: an update-user request from a requester without the admin role
\* leaves the roles, the quota and the disabled flag of that user (and of
\* every user) unchanged, so no non-admin identity can raise its own
\* execution limits or grant itself a role.
C32_NonAdminKeepsPrivileges ==
    [][(UpdateServed' /\ "admin" \notin users[resp'.auth.sub].Roles) =>
          /\ DOMAIN users' = DOMAIN users
          /\ \A u \in DOMAIN users :
                /\ users'[u].Roles = users[u].Roles
                /\ users'[u].Quota = users[u].Quota
                /\ users'[u].Disabled = users[u].Disabled]_vars

\* An update of a requester without the admin role that asked for the
\* reserved fields too (only such updates carry the full name "B") has been
\* applied to the fields every user may change.
C32_Witness ==
    /\ UpdateServed
    /\ resp.status = 200
    /\ "admin" \notin users[resp.auth.sub].Roles
    /\ users[resp.auth.sub].FullName = "B"
    /\ users[resp.auth.sub].ID = "id-alice"

---------------------------------------------------------------------------
(* Requests to every route.                                                *)

\* alice and the administrator send requests to every route of the
\* execution group and to the admin routes, and alice asks for a larger
\* quota.
NextAll ==
    \/ \E req \in Requests(Routes, {Bearer("alice"), Bearer("root")}, {FALSE}) :
          Request(req)
    \/ \E req \in UpdateRequests({Bearer("alice")}) :
          req.update.quota.kind = "map" /\ ~req.update.disabled.set /\ Request(req)
    \/ Tick

SpecAll == Init /\ [][NextAll]_vars

\* The step leaves the daily execution counters of user u as they were.
DailyCounterKept(u) ==
    \A t \in 1..MaxTime :
        RedisGet(redis', QuotaKey(users[u].ID, t), FALSE)
            = RedisGet(redis, QuotaKey(users[u].ID, t), FALSE)

\* C33: the daily execution counter of an identity is changed only by that
\* identity's own POST /execute requests: a request to another route (status
\* lookup, cancellation, admin route, update of a user) or a request of
\* another identity leaves it unchanged.
C33_OnlyOwnSubmissionsCount ==
    [][\A u \in DOMAIN users :
          (resp'.route # "" /\ ~(resp'.route = "POST /execute" /\ resp'.auth = Bearer(u)))
              => DailyCounterKept(u)]_vars

\* An identity whose daily counter already counts a submission has had a
\* cancellation served.
C33_Witness ==
    /\ resp.route = "DELETE /tasks/:task_id"
    /\ resp.status = 200
    /\ RedisGet(redis, QuotaKey(users[resp.auth.sub].ID, now), FALSE).val > 0

---------------------------------------------------------------------------
(* Registration, and who the rate limiter counts a request under.          *)

\* The network origin of the requests.
ClientIPs == {"10.0.0.1"}

\* Usernames a client may register: Register asks only that the name is not
\* empty and not taken.
Usernames == {"carol", "ip:10.0.0.1"}

\* POST /auth/register, which needs no token.
RegisterRequests ==
    {[route |-> "POST /auth/register", method |-> "POST", auth |-> NoAuth,
      ip |-> ip, body |-> NoBody, task_id |-> "", down |-> FALSE,
      track_down |-> FALSE, create |-> cr] :
        ip \in ClientIPs,
        cr \in {[ok |-> TRUE, username |-> n, email |-> n \o "@x", full_name |-> "",
                 password |-> "password1"] : n \in Usernames} \cup {NoCreate}}

\* Clients register, and then send requests without a token or with the
\* token Login issues to a registered user (its "sub" is the username).
NextNames ==
    \/ \E req \in RegisterRequests : Request(req)
    \/ \E req \in Requests({"GET /auth/admin/users"},
                           {NoAuth} \cup {Bearer(u) : u \in DOMAIN users \cap Usernames},
                           {FALSE}) : Request(req)
    \/ Tick

SpecNames == Init /\ [][NextNames]_vars

\* The identities the rate limiter is to tell apart: the authenticated
\* subjects and the unauthenticated network origins.
Subject(u) == [kind |-> "subject", id |-> u]

Origin(ip) == [kind |-> "origin", id |-> ip]

\* The identity a request with this Authorization header comes from.
Sender(auth, ip) == IF auth.kind = "bearer" THEN Subject(auth.sub) ELSE Origin(ip)

\* The key under which the rate limiter counts the requests of an identity.
CounterKeyOf(identity) ==
    IF identity.kind = "subject"
    THEN RateLimitKey([auth |-> Bearer(identity.id), ip |-> "10.0.0.1"])
    ELSE RateLimitKey([auth |-> NoAuth, ip |-> identity.id])

\* C34: rate-limit counters are isolated per identity: the key of an
\* authenticated subject never coincides with the key of another subject or
\* of an unauthenticated network origin, so a request of one identity leaves
\* the counter of every other identity, and with it whether that identity's
\* next request is admitted, unchanged.
C34_CountersIsolated ==
    [][resp'.route # "" =>
         \A other \in ({Subject(u) : u \in DOMAIN users}
                         \cup {Origin(ip) : ip \in ClientIPs})
                      \ {Sender(resp'.auth, "10.0.0.1")} :
            RedisGet(redis', CounterKeyOf(other), FALSE)
                = RedisGet(redis, CounterKeyOf(other), FALSE)]_vars

---------------------------------------------------------------------------
(* Requests served while the counter store fails.                          *)

\* POST /execute by `auths`; the store may fail when the middlewares read
\* it, and, separately, when TrackExecution calls it.
FailingExecutes(auths) ==
    {[route |-> "POST /execute", method |-> "POST", auth |-> a, ip |-> "10.0.0.1",
      body |-> b, task_id |-> "", down |-> dn, track_down |-> td] :
        a \in auths, b \in Bodies, dn \in BOOLEAN, td \in BOOLEAN}

\* alice submits and looks her tasks up, with or without a token, while the
\* store fails now and then.
NextDown ==
    \/ \E req \in FailingExecutes({Bearer("alice")}) : Request(req)
    \/ \E req \in Requests({"GET /tasks/:task_id"}, {NoAuth, Bearer("alice")},
                           {FALSE, TRUE}) : Request(req)
    \/ Tick

SpecDown == Init /\ [][NextDown]_vars

\* The last request was served while the store could not be read.
ReadFailed == resp.route # "" /\ resp.down

\* C35: when reading the counter store fails with an error other than
\* key-missing, the rate limiter admits the request and leaves its counter
\* unchanged, and so does the execution-quota check when the request reaches
\* it: the request is handed to ExecuteCode, and the daily counter changes
\* only by what TrackExecution adds for an accepted submission.
C35_GatesFailOpen ==
    [][ReadFailed' =>
         /\ resp'.rl.outcome = "open"
         /\ Len(resp'.ran) > 2
         /\ resp'.status # 429
         /\ RedisGet(redis', resp'.rl.key, FALSE) = RedisGet(redis, resp'.rl.key, FALSE)
         /\ (\E i \in DOMAIN resp'.ran : resp'.ran[i] = "ExecutionQuotaMiddleware") =>
               /\ resp'.quota.outcome = "open"
               /\ \E i \in DOMAIN resp'.ran : resp'.ran[i] = "ExecuteCode"
               /\ LET before == RedisGet(redis, resp'.quota.key, FALSE).val
                      after == RedisGet(redis', resp'.quota.key, FALSE).val
                  IN  \/ after = before
                      \/ resp'.status = 202 /\ after = before + 1]_vars

\* A submission was accepted while the store could not be read, although
\* the sender's daily counter stood at the limit.
C35_Witness ==
    /\ ReadFailed
    /\ resp.route = "POST /execute"
    /\ resp.status = 202
    /\ resp.rl.outcome = "open" /\ resp.quota.outcome = "open"
    /\ RedisGet(redis, resp.quota.key, FALSE).val >= MaxExecutionsPerDay

=============================================================================
